---- MODULE Spec2Model ----
(***************************************************************************)
(* Irrigation scheduling application: the SQLite store (database.py), the  *)
(* entity validation (models.py), the ETc derivation (calculator.py) and   *)
(* the orchestration and shell operations of IrrigationApp (app.py).       *)
(*                                                                         *)
(* Representation.                                                         *)
(*  - A table is the collection of its rows.  fields is the sequence of    *)
(*    its rows in rowid order, the order in which SELECT ... FROM fields   *)
(*    scans them: a new row gets the largest rowid, an UPDATE keeps it.    *)
(*    weather_data is the set of its rows; it is only read ORDER BY date.  *)
(*    The key constraints (PRIMARY KEY, UNIQUE) are not built into the     *)
(*    representation but enforced by the insert operators, as SQLite       *)
(*    enforces them on INSERT.  etc_calculations has no key besides the    *)
(*    surrogate id, which no query reads, so it is a bag of                *)
(*    (field_name, date, etc_value, calculated_at) rows.                   *)
(*  - Dates are day numbers: ISO 8601 strings of equal length order        *)
(*    lexicographically as the days they denote order numerically.         *)
(*  - REAL columns hold integers here; the product et0 * crop_factor is    *)
(*    computed as the code computes it.                                    *)
(*  - calculated_at is the reading of the wall clock at the call.          *)
(***************************************************************************)
EXTENDS Integers, Sequences, FiniteSets, Bags, TLC

VARIABLES fields, weather_data, etc_calculations, clock, last

vars == <<fields, weather_data, etc_calculations, clock, last>>

(***************************************************************************)
(* Bounds of the model.                                                    *)
(***************************************************************************)
MaxKc == 1
MaxWeek == 1
MaxEt0 == 1
MaxDate == 2
MaxClock == 1
MaxEtcRows == 2

FieldNameList == <<"F1", "F2">>
FieldNames == {FieldNameList[i] : i \in DOMAIN FieldNameList}
BlankNames == {"", " "}
CropFactors == -1..MaxKc
FertilizerWeeks == 0..MaxWeek
Et0Values == -1..MaxEt0
Dates == 1..MaxDate
EtcValues == 0..MaxEt0

Range(s) == {s[i] : i \in DOMAIN s}

\* Lists of dates of length 0..2, repetitions included.
DateLists == {<<>>} \cup {<<d>> : d \in Dates} \cup {<<d, e>> : d, e \in Dates}

\* The lists of distinct dates in ascending order.
SortedDateLists == {dl \in DateLists : \A i, j \in DOMAIN dl : i < j => dl[i] < dl[j]}

(***************************************************************************)
(* models.py                                                               *)
(***************************************************************************)
\* A validation whose week check is off by one: week 0 passes.
FieldValid_week0(field_name, crop_factor, fertilizer_week) ==
    /\ field_name \notin BlankNames
    /\ crop_factor >= 0
    /\ fertilizer_week >= 0

\* Field.__post_init__: the three checks that raise ValueError.
FieldValid(field_name, crop_factor, fertilizer_week) ==
    /\ field_name \notin BlankNames
    /\ crop_factor >= 0
    /\ fertilizer_week >= 1

FieldRow(field_name, crop_factor, fertilizer_week) ==
    [field_name |-> field_name, crop_factor |-> crop_factor,
     fertilizer_week |-> fertilizer_week]

\* Field(field_name, crop_factor, fertilizer_week): the dataclass constructor
\* assigns the three attributes and runs __post_init__.
Field(field_name, crop_factor, fertilizer_week) ==
    IF FieldValid(field_name, crop_factor, fertilizer_week)
    THEN [raised |-> "", field |-> FieldRow(field_name, crop_factor, fertilizer_week)]
    ELSE [raised |-> "ValueError", field |-> <<>>]

\* WeatherData.__post_init__: et0 must be non-negative (a day number is
\* always a well-formed date).
WeatherValid(date, et0) == et0 >= 0

WeatherRow(date, et0) == [date |-> date, et0 |-> et0]

EtcRow(field_name, date, etc_value, calculated_at) ==
    [field_name |-> field_name, date |-> date, etc_value |-> etc_value,
     calculated_at |-> calculated_at]

(***************************************************************************)
(* database.py: fields                                                     *)
(***************************************************************************)
\* field_exists: SELECT 1 FROM fields WHERE field_name = ?
field_exists(tbl, field_name) == \E i \in DOMAIN tbl : tbl[i].field_name = field_name

\* A create_field that forgets the PRIMARY KEY: the row is always inserted.
create_field_nokey(tbl, field_name, crop_factor, fertilizer_week) ==
    [raised |-> "",
     fields |-> Append(tbl, FieldRow(field_name, crop_factor, fertilizer_week))]

\* create_field: INSERT INTO fields; the PRIMARY KEY on field_name makes the
\* insert of an existing name raise sqlite3.IntegrityError, and the
\* connection is closed without a commit.
create_field(tbl, field_name, crop_factor, fertilizer_week) ==
    IF field_exists(tbl, field_name)
    THEN [raised |-> "IntegrityError", fields |-> tbl]
    ELSE [raised |-> "",
          fields |-> Append(tbl, FieldRow(field_name, crop_factor, fertilizer_week))]

\* fetchone: the first row of the name.
FirstIndexOfName(tbl, field_name) ==
    CHOOSE i \in DOMAIN tbl :
        /\ tbl[i].field_name = field_name
        /\ \A j \in DOMAIN tbl : tbl[j].field_name = field_name => i <= j

\* get_field: fetchone of the rows with that name; None when there is none;
\* otherwise Field(...) is constructed, which raises ValueError on a row that
\* fails validation.
get_field(tbl, field_name) ==
    IF ~field_exists(tbl, field_name)
    THEN [raised |-> "", found |-> FALSE, field |-> <<>>]
    ELSE LET row == tbl[FirstIndexOfName(tbl, field_name)]
         IN  IF FieldValid(row.field_name, row.crop_factor, row.fertilizer_week)
             THEN [raised |-> "", found |-> TRUE, field |-> row]
             ELSE [raised |-> "ValueError", found |-> FALSE, field |-> <<>>]

\* An update_field whose UPDATE sets crop_factor only.
update_field_kconly(tbl, field_name, crop_factor, fertilizer_week) ==
    IF ~field_exists(tbl, field_name)
    THEN [raised |-> "ValueError", fields |-> tbl]
    ELSE [raised |-> "",
          fields |-> [i \in DOMAIN tbl |->
                         IF tbl[i].field_name = field_name
                         THEN FieldRow(field_name, crop_factor, tbl[i].fertilizer_week)
                         ELSE tbl[i]]]

\* update_field: UPDATE ... WHERE field_name = ?; rowcount 0 raises ValueError
\* before the commit.
update_field(tbl, field_name, crop_factor, fertilizer_week) ==
    IF ~field_exists(tbl, field_name)
    THEN [raised |-> "ValueError", fields |-> tbl]
    ELSE [raised |-> "",
          fields |-> [i \in DOMAIN tbl |->
                         IF tbl[i].field_name = field_name
                         THEN FieldRow(field_name, crop_factor, fertilizer_week)
                         ELSE tbl[i]]]

\* A delete_field without the rowcount check: an absent name passes in
\* silence.
delete_field_silent(tbl, field_name) ==
    [raised |-> "", fields |-> SelectSeq(tbl, LAMBDA r : r.field_name # field_name)]

\* delete_field: DELETE FROM fields WHERE field_name = ?; rowcount 0 raises
\* ValueError.
delete_field(tbl, field_name) ==
    IF ~field_exists(tbl, field_name)
    THEN [raised |-> "ValueError", fields |-> tbl]
    ELSE [raised |-> "",
          fields |-> SelectSeq(tbl, LAMBDA r : r.field_name # field_name)]

\* get_all_fields: every row becomes a Field(...), in the order of the
\* SELECT; one row that fails validation makes the whole call raise
\* ValueError.
get_all_fields(tbl) ==
    IF \E i \in DOMAIN tbl :
           ~FieldValid(tbl[i].field_name, tbl[i].crop_factor, tbl[i].fertilizer_week)
    THEN [raised |-> "ValueError", rows |-> <<>>]
    ELSE [raised |-> "", rows |-> tbl]

(***************************************************************************)
(* database.py: weather_data                                               *)
(***************************************************************************)
\* A save_weather_data written with a plain INSERT and no UNIQUE conflict
\* handling: the old row of the date stays.
save_weather_data_noreplace(tbl, date, et0) == tbl \cup {WeatherRow(date, et0)}

\* save_weather_data: INSERT OR REPLACE; date is UNIQUE, so the rows that
\* conflict on date are deleted and the new row is inserted.
save_weather_data(tbl, date, et0) ==
    {r \in tbl : r.date # date} \cup {WeatherRow(date, et0)}

\* ORDER BY date: ascending.
RECURSIVE SortByDate(_)
SortByDate(rows) ==
    IF rows = {} THEN <<>>
    ELSE LET first == CHOOSE r \in rows : \A q \in rows : r.date <= q.date
         IN  <<first>> \o SortByDate(rows \ {first})

\* get_weather_data_by_dates: [] for an empty list; otherwise the rows whose
\* date is IN the list, ordered by date, each made a WeatherData(...), which
\* raises ValueError on a negative et0.
get_weather_data_by_dates(tbl, dates) ==
    IF dates = <<>>
    THEN [raised |-> "", rows |-> <<>>]
    ELSE LET hit == {r \in tbl : r.date \in Range(dates)}
         IN  IF \E r \in hit : ~WeatherValid(r.date, r.et0)
             THEN [raised |-> "ValueError", rows |-> <<>>]
             ELSE [raised |-> "", rows |-> SortByDate(hit)]

(***************************************************************************)
(* calculator.py                                                           *)
(***************************************************************************)
\* A calculate_etc that adds where it should multiply.
calculate_etc_sum(field, wd) == wd.et0 + field.crop_factor

\* calculate_etc: ETc = ET0 * Kc.
calculate_etc(field, wd) == wd.et0 * field.crop_factor

\* The index of the last element of seq whose key (by the selector) is k:
\* a later assignment to the same dictionary key overwrites an earlier one.
LastIndexOfDate(wdl, d) ==
    CHOOSE i \in DOMAIN wdl :
        /\ wdl[i].date = d
        /\ \A j \in DOMAIN wdl : wdl[j].date = d => j <= i

LastIndexOfName(fs, n) ==
    CHOOSE i \in DOMAIN fs :
        /\ fs[i].field_name = n
        /\ \A j \in DOMAIN fs : fs[j].field_name = n => j <= i

\* calculate_etc_for_all_fields: {field_name: {date: etc_value}}.
calculate_etc_for_all_fields(fs, wdl) ==
    [n \in {fs[i].field_name : i \in DOMAIN fs} |->
        [d \in {wdl[i].date : i \in DOMAIN wdl} |->
            calculate_etc(fs[LastIndexOfName(fs, n)], wdl[LastIndexOfDate(wdl, d)])]]

\* The keys of that dictionary in insertion order: the field names in the
\* order of the list, each at its first occurrence.
RECURSIVE KeyOrder(_)
KeyOrder(fs) ==
    IF fs = <<>> THEN <<>>
    ELSE LET front == KeyOrder(SubSeq(fs, 1, Len(fs) - 1))
             n == fs[Len(fs)].field_name
         IN  IF n \in Range(front) THEN front ELSE Append(front, n)

(***************************************************************************)
(* database.py: etc_calculations                                           *)
(***************************************************************************)
\* save_etc_calculation: a plain INSERT.
save_etc_calculation(tbl, field_name, date, etc_value, calculated_at) ==
    tbl (+) SetToBag({EtcRow(field_name, date, etc_value, calculated_at)})

\* A DELETE whose WHERE clause names the field only.
DeleteEtc_field(tbl, field_name, date) ==
    LET keep == {r \in DOMAIN tbl : r.field_name # field_name}
    IN  [r \in keep |-> tbl[r]]

\* DELETE FROM etc_calculations WHERE field_name = ? AND date = ?
DeleteEtc(tbl, field_name, date) ==
    LET keep == {r \in DOMAIN tbl : ~(r.field_name = field_name /\ r.date = date)}
    IN  [r \in keep |-> tbl[r]]

\* A replacement whose DELETE is missing.
ReplaceEtc_nodelete(tbl, field_name, date, etc_value, calculated_at) ==
    save_etc_calculation(tbl, field_name, date, etc_value, calculated_at)

\* The body of the batch loop for one pair: the DELETE, then the INSERT.
ReplaceEtc(tbl, field_name, date, etc_value, calculated_at) ==
    save_etc_calculation(DeleteEtc(tbl, field_name, date),
                         field_name, date, etc_value, calculated_at)

\* The (field_name, date, etc_value) triples the nested loops of the batch
\* visit, in order: for each key of etc_results, for each element of
\* weather_data_list whose date is a key of that field's results.
RECURSIVE DatePairs(_, _, _)
DatePairs(field_name, date_results, wdl) ==
    IF wdl = <<>> THEN <<>>
    ELSE LET date == Head(wdl).date
         IN  (IF date \in DOMAIN date_results
              THEN <<[field_name |-> field_name, date |-> date,
                      etc_value |-> date_results[date]]>>
              ELSE <<>>)
             \o DatePairs(field_name, date_results, Tail(wdl))

RECURSIVE BatchPairs(_, _, _)
BatchPairs(keys, etc_results, wdl) ==
    IF keys = <<>> THEN <<>>
    ELSE DatePairs(Head(keys), etc_results[Head(keys)], wdl)
         \o BatchPairs(Tail(keys), etc_results, wdl)

\* A batch that reads the clock anew for every pair, the clock advancing
\* from pair to pair.
RECURSIVE BatchAfter_stamps(_, _, _, _)
BatchAfter_stamps(tbl, pairs, k, calculated_at) ==
    IF k = 0 THEN tbl
    ELSE ReplaceEtc(BatchAfter_stamps(tbl, pairs, k - 1, calculated_at),
                    pairs[k].field_name, pairs[k].date, pairs[k].etc_value,
                    calculated_at + k - 1)

\* The uncommitted table of the connection after the first k pairs.
RECURSIVE BatchAfter(_, _, _, _)
BatchAfter(tbl, pairs, k, calculated_at) ==
    IF k = 0 THEN tbl
    ELSE ReplaceEtc(BatchAfter(tbl, pairs, k - 1, calculated_at),
                    pairs[k].field_name, pairs[k].date, pairs[k].etc_value,
                    calculated_at)

\* A batch that commits in its finally block: what was done before the
\* failure stays.
save_etc_calculations_batch_partial(tbl, keys, etc_results, wdl, calculated_at, fault) ==
    LET pairs == BatchPairs(keys, etc_results, wdl)
    IN  IF fault \in 1..Len(pairs)
        THEN [raised |-> "Error", etc |-> BatchAfter(tbl, pairs, fault - 1, calculated_at)]
        ELSE [raised |-> "", etc |-> BatchAfter(tbl, pairs, Len(pairs), calculated_at)]

\* save_etc_calculations_batch: every statement runs in the one implicit
\* transaction of the connection; conn.commit() comes after the loops.  An
\* exception raised by the statements of pair number fault (fault = 0: none)
\* leaves through the finally block, which closes the connection without a
\* commit: the transaction is rolled back.
save_etc_calculations_batch(tbl, keys, etc_results, wdl, calculated_at, fault) ==
    LET pairs == BatchPairs(keys, etc_results, wdl)
    IN  IF fault \in 1..Len(pairs)
        THEN [raised |-> "Error", etc |-> tbl]
        ELSE [raised |-> "", etc |-> BatchAfter(tbl, pairs, Len(pairs), calculated_at)]

\* The rows of the table for one (field_name, date) pair, counted.
EtcCount(tbl, field_name, date) ==
    BagCardinality([r \in {q \in DOMAIN tbl : q.field_name = field_name /\ q.date = date}
                      |-> tbl[r]])

(***************************************************************************)
(* app.py: the orchestration                                               *)
(***************************************************************************)
\* field.crop_factor is not None and field.crop_factor >= 0
HasValidCropFactor(field) == field.crop_factor >= 0

\* A coverage check that only asks for some observation.
CoversAllDates_some(rows, dates) == rows # <<>> \/ dates = <<>>

\* The two checks that every requested date has its observation:
\* len(weather_data) != len(dates), then weather_dates != set(dates).
CoversAllDates(rows, dates) ==
    /\ Len(rows) = Len(dates)
    /\ {rows[i].date : i \in DOMAIN rows} = Range(dates)

\* An orchestration without the except clause: the exception of a callee
\* leaves the method.
Failure_uncaught(tblE, at) ==
    [ok |-> FALSE,
     at |-> IF at \in {"get_all_fields raised", "get_weather_data_by_dates raised",
                       "save_etc_calculations_batch raised"}
            THEN "raised out of the method" ELSE at,
     etc_results |-> <<>>, valid_fields |-> <<>>, weather_data |-> <<>>, etc |-> tblE]

\* return (False, None, None, None), with the place it is returned from.
Failure(tblE, at) ==
    [ok |-> FALSE, at |-> at, etc_results |-> <<>>, valid_fields |-> <<>>,
     weather_data |-> <<>>, etc |-> tblE]

\* IrrigationApp._calculate_and_save_etc_for_dates on the tables tblF, tblW,
\* tblE; now is the wall clock, fault the pair at which the save raises
\* (0: it does not).  The result carries the returned tuple and the
\* etc_calculations table the call leaves.  An exception of a callee is
\* caught by the except clause, which returns the failure tuple.
CalculateAndSave(tblF, tblW, tblE, dates, now, fault) ==
    IF get_all_fields(tblF).raised # "" THEN Failure(tblE, "get_all_fields raised")
    ELSE IF get_all_fields(tblF).rows = <<>> THEN Failure(tblE, "no fields")
    ELSE LET fs == get_all_fields(tblF).rows
             wd == get_weather_data_by_dates(tblW, dates)
         IN  IF wd.raised # "" THEN Failure(tblE, "get_weather_data_by_dates raised")
             ELSE IF ~CoversAllDates(wd.rows, dates) THEN Failure(tblE, "missing data")
             ELSE LET valid_fields == SelectSeq(fs, HasValidCropFactor)
                  IN  IF valid_fields = <<>> THEN Failure(tblE, "no valid fields")
                      ELSE LET etc_results ==
                                   calculate_etc_for_all_fields(valid_fields, wd.rows)
                               saved ==
                                   save_etc_calculations_batch(
                                       tblE, KeyOrder(valid_fields), etc_results,
                                       wd.rows, now, fault)
                           IN  IF saved.raised # ""
                               THEN Failure(saved.etc, "save_etc_calculations_batch raised")
                               ELSE [ok |-> TRUE, at |-> "success",
                                     etc_results |-> etc_results,
                                     valid_fields |-> valid_fields,
                                     weather_data |-> wd.rows,
                                     etc |-> saved.etc]

(***************************************************************************)
(* State machines.  last records the latest call that is observed: its     *)
(* name, its arguments and what it returned or raised.                     *)
(***************************************************************************)
\* old: the rows the call found under the key it writes.
CallOver(op, args, ret, old) == [op |-> op, args |-> args, ret |-> ret, old |-> old]

Call(op, args, ret) == CallOver(op, args, ret, {})

\* A call whose outcome the specification at hand does not observe.
Unobserved == Call("", <<>>, "")

\* The state after IrrigationApp.__init__ on a new database file, before the
\* default fields are seeded: init_database has created three empty tables.
Init ==
    /\ fields = <<>>
    /\ weather_data = {}
    /\ etc_calculations = EmptyBag
    /\ clock = 0
    /\ last = Call("init_database", <<>>, "")

\* The wall clock advances between calls.
Tick ==
    /\ clock < MaxClock
    /\ clock' = clock + 1
    /\ UNCHANGED <<fields, weather_data, etc_calculations, last>>

\* database.create_field(field_name, crop_factor, fertilizer_week)
CreateField ==
    \E n \in FieldNames, kc \in CropFactors, wk \in FertilizerWeeks :
        LET r == create_field(fields, n, kc, wk)
        IN  /\ fields' = r.fields
            /\ last' = Call("create_field", <<n, kc, wk>>, r.raised)
            /\ UNCHANGED <<weather_data, etc_calculations, clock>>

\* database.update_field(field_name, crop_factor, fertilizer_week)
UpdateField ==
    \E n \in FieldNames, kc \in CropFactors, wk \in FertilizerWeeks :
        LET r == update_field(fields, n, kc, wk)
        IN  /\ fields' = r.fields
            /\ last' = Call("update_field", <<n, kc, wk>>, r.raised)
            /\ UNCHANGED <<weather_data, etc_calculations, clock>>

\* database.delete_field(field_name)
DeleteField ==
    \E n \in FieldNames :
        LET r == delete_field(fields, n)
        IN  /\ fields' = r.fields
            /\ last' = Call("delete_field", <<n>>, r.raised)
            /\ UNCHANGED <<weather_data, etc_calculations, clock>>

\* database.save_weather_data(date, et0)
SaveWeatherData ==
    \E d \in Dates, x \in Et0Values :
        /\ weather_data' = save_weather_data(weather_data, d, x)
        /\ last' = CallOver("save_weather_data", <<d, x>>, "",
                             {r \in weather_data : r.date = d})
        /\ UNCHANGED <<fields, etc_calculations, clock>>

\* database.save_etc_calculation(field_name, date, etc_value)
SaveEtcCalculation ==
    \E n \in FieldNames, d \in Dates, v \in EtcValues :
        /\ BagCardinality(etc_calculations) < MaxEtcRows
        /\ etc_calculations' = save_etc_calculation(etc_calculations, n, d, v, clock)
        /\ last' = Call("save_etc_calculation", <<n, d, v>>, "")
        /\ UNCHANGED <<fields, weather_data, clock>>

\* database.save_etc_calculations_batch(etc_results, weather_data_list):
\* etc_results a dictionary over some fields (keys in the order of
\* FieldNameList) and some dates, weather_data_list any list of observations
\* (only their dates are read).  The call is observed by what it raised and
\* by the number of pairs whose statements had run when it did.
SaveEtcCalculationsBatch ==
    \E ns \in SUBSET FieldNames \ {{}}, ds \in SUBSET Dates \ {{}},
       v \in EtcValues, dl \in SortedDateLists :
        LET keys == SelectSeq(FieldNameList, LAMBDA n : n \in ns)
            etc_results == [n \in ns |-> [d \in ds |-> v]]
            wdl == [i \in DOMAIN dl |-> WeatherRow(dl[i], 0)]
        IN  \E fault \in 0..Len(BatchPairs(keys, etc_results, wdl)) :
              LET r == save_etc_calculations_batch(
                           etc_calculations, keys, etc_results, wdl, clock, fault)
              IN  /\ etc_calculations' = r.etc
                  /\ last' = Call("save_etc_calculations_batch",
                                  <<IF r.raised = "" THEN 0 ELSE fault - 1>>, r.raised)
                  /\ UNCHANGED <<fields, weather_data, clock>>

\* The call repeats the latest call: that one was a successful run of the
\* orchestration for the same dates, and the store has not changed since.
RunsAgain(dates) ==
    /\ last.op = "orchestrate"
    /\ last.ret.ok
    /\ last.args = dates

\* The number of pairs the save of a run visits: one for each valid field
\* and loaded observation when the run reaches the save, none when it does
\* not.
PairsToSave(dates) ==
    LET r == CalculateAndSave(fields, weather_data, etc_calculations,
                              dates, clock, 0)
    IN  IF r.ok THEN Len(r.valid_fields) * Len(r.weather_data) ELSE 0

\* IrrigationApp._calculate_and_save_etc_for_dates(dates); the save raises at
\* one of its pairs (fault) or not at all (fault = 0).
Orchestrate ==
    \E dates \in DateLists :
      \E fault \in 0..PairsToSave(dates) :
        LET r == CalculateAndSave(fields, weather_data, etc_calculations,
                                  dates, clock, fault)
        IN  /\ etc_calculations' = r.etc
            /\ last' = Call("orchestrate", dates,
                            [ok |-> r.ok, at |-> r.at, etc_results |-> r.etc_results,
                             valid_fields |-> r.valid_fields,
                             weather_data |-> r.weather_data,
                             again |-> RunsAgain(dates)])
            /\ UNCHANGED <<fields, weather_data, clock>>

\* The crop factors and readings the store is given between the runs of the
\* orchestration: one that fails validation and one valid value, which
\* differs from field to field and from date to date.
FieldIndex(n) == CHOOSE i \in DOMAIN FieldNameList : FieldNameList[i] = n

\* The store changes between two runs of the orchestration: a field is
\* created, updated or deleted.  The outcome of these calls is not observed
\* here.
StoreChanges ==
    /\ \/ \E n \in FieldNames : \E kc \in {-1, FieldIndex(n)} :
            fields' = create_field(fields, n, kc, 1).fields
       \/ \E n \in FieldNames : \E kc \in {-1, FieldIndex(n)} :
            fields' = update_field(fields, n, kc, 1).fields
       \/ \E n \in FieldNames : fields' = delete_field(fields, n).fields
    /\ last' = Unobserved
    /\ UNCHANGED <<weather_data, etc_calculations, clock>>

\* An observation is saved between two runs of the orchestration.
WeatherChanges ==
    /\ \E d \in Dates : \E x \in {-1, d} :
          weather_data' = save_weather_data(weather_data, d, x)
    /\ last' = Unobserved
    /\ UNCHANGED <<fields, etc_calculations, clock>>

\* The orchestration over a store that changes between its runs.
Next ==
    \/ Tick
    \/ StoreChanges
    \/ WeatherChanges
    \/ Orchestrate

Spec == Init /\ [][Next]_vars

\* The field and weather operations of the store, each call observed.
NextStore ==
    \/ CreateField
    \/ UpdateField
    \/ DeleteField
    \/ SaveWeatherData

SpecStore == Init /\ [][NextStore]_vars

\* The writers of etc_calculations, each call observed.
NextEtc ==
    \/ Tick
    \/ SaveEtcCalculation
    \/ SaveEtcCalculationsBatch

SpecEtc == Init /\ [][NextEtc]_vars

(***************************************************************************)
(* app.py: the shell.  Each menu choice of IrrigationApp.run is one        *)
(* action; the prompts have been answered when it runs.                    *)
(***************************************************************************)
\* initialize_default_fields: the three rows inserted into an empty table.
DefaultFields ==
    <<FieldRow("DF1B", 0, 1), FieldRow("SS2B", 0, 1), FieldRow("MF8B", 0, 1)>>

\* The names typed at the prompts.
ShellNames == {DefaultFields[i].field_name : i \in DOMAIN DefaultFields}

\* get_next_three_dates: tomorrow and the two days after it, today being
\* day 0.
NextThreeDates == <<1, 2, 3>>

\* validate_crop_factor_input, validate_et0_input: a float >= 0;
\* validate_fertilizer_week_input: an int >= 1.
ValidCropFactorInputs == 0..MaxKc
ValidEt0Inputs == 0..MaxEt0
ValidWeekInputs == 1..MaxWeek

\* The state after IrrigationApp.__init__ on a new database file.
InitShell ==
    /\ fields = DefaultFields
    /\ weather_data = {}
    /\ etc_calculations = EmptyBag
    /\ clock = 0
    /\ last = Call("__init__", <<>>, "")

\* add_field: the name prompt repeats until the name is non-empty and not
\* stored, the other prompts until the value is valid; then create_field.
AddField ==
    \E n \in ShellNames, kc \in ValidCropFactorInputs, wk \in ValidWeekInputs :
        /\ n \notin BlankNames
        /\ ~field_exists(fields, n)
        /\ fields' = create_field(fields, n, kc, wk).fields
        /\ last' = Call("add_field", <<>>, "")
        /\ UNCHANGED <<weather_data, etc_calculations, clock>>

\* edit_field: returns when there is no field or the name is not found;
\* otherwise update_field with the validated new values.  ETc is not
\* recomputed.
EditField ==
    \E n \in ShellNames, kc \in ValidCropFactorInputs, wk \in ValidWeekInputs :
        /\ get_all_fields(fields).raised = ""
        /\ get_all_fields(fields).rows # <<>>
        /\ get_field(fields, n).found
        /\ fields' = update_field(fields, n, kc, wk).fields
        /\ last' = Call("edit_field", <<>>, "")
        /\ UNCHANGED <<weather_data, etc_calculations, clock>>

\* delete_field (the shell's): returns when there is no field or the name is
\* not stored; after the confirmation, database.delete_field.
ShellDeleteField ==
    \E n \in ShellNames :
        /\ get_all_fields(fields).raised = ""
        /\ get_all_fields(fields).rows # <<>>
        /\ field_exists(fields, n)
        /\ fields' = delete_field(fields, n).fields
        /\ last' = Call("delete_field", <<>>, "")
        /\ UNCHANGED <<weather_data, etc_calculations, clock>>

\* input_weather_data: one validated ET0 is saved for each of the next three
\* dates, then the orchestration runs for these dates; its failure is
\* passed over in silence.  The save of the orchestration raises at its
\* first pair (fault = 1) or not at all.  The answers enumerated are those
\* that give the three dates the same value.
InputWeatherData ==
    \E x \in {[i \in DOMAIN NextThreeDates |-> v] : v \in ValidEt0Inputs},
       fault \in {0, 1} :
        LET w1 == save_weather_data(weather_data, NextThreeDates[1], x[1])
            w2 == save_weather_data(w1, NextThreeDates[2], x[2])
            w3 == save_weather_data(w2, NextThreeDates[3], x[3])
            r == CalculateAndSave(fields, w3, etc_calculations,
                                  NextThreeDates, clock, fault)
        IN  /\ weather_data' = w3
            /\ etc_calculations' = r.etc
            /\ last' = Call("input_weather_data", <<>>, r.ok)
            /\ UNCHANGED <<fields, clock>>

\* view_etc_table: returns before the orchestration when there is no field,
\* when one of the next three dates has no observation or when a crop
\* factor is invalid; otherwise the orchestration runs, and the table is
\* printed when it succeeds.
ViewEtcTable ==
    \E fault \in {0, 1} :
        LET fs == get_all_fields(fields).rows
            wd == get_weather_data_by_dates(weather_data, NextThreeDates)
            r == CalculateAndSave(fields, weather_data, etc_calculations,
                                  NextThreeDates, clock, fault)
        IN  /\ get_all_fields(fields).raised = ""
            /\ fs # <<>>
            /\ wd.raised = ""
            /\ \A i \in DOMAIN NextThreeDates :
                   \E j \in DOMAIN wd.rows : wd.rows[j].date = NextThreeDates[i]
            /\ \A i \in DOMAIN fs : HasValidCropFactor(fs[i])
            /\ etc_calculations' = r.etc
            /\ last' = Call("view_etc_table", <<>>, r.ok)
            /\ UNCHANGED <<fields, weather_data, clock>>

NextShell ==
    \/ AddField
    \/ EditField
    \/ ShellDeleteField
    \/ InputWeatherData
    \/ ViewEtcTable

SpecShell == InitShell /\ [][NextShell]_vars

(***************************************************************************)
(* database.py: the history query                                          *)
(***************************************************************************)
\* An optional argument: <<>> is None, <<x>> the value x.
None == <<>>

Some(x) == <<x>>

\* if field_name: a name that is given and is not the empty string.
FieldNameGiven(field_name) == field_name # None /\ field_name[1] # ""

\* if date: a date that is given (the ISO string of a day is never empty).
DateGiven(date) == date # None

\* The rows the WHERE clause built by get_etc_history selects, each as often
\* as the table holds it.
SelectEtc(tbl, field_name, date) ==
    LET hit == {r \in DOMAIN tbl :
                   /\ FieldNameGiven(field_name) => r.field_name = field_name[1]
                   /\ DateGiven(date) => r.date = date[1]}
    IN  [r \in hit |-> tbl[r]]

\* ORDER BY calculated_at DESC: the lists of the rows in which no row comes
\* before a newer one.  SQL leaves the order of rows of equal calculated_at
\* open, so every such list is a possible result.
RECURSIVE OrderByCalculatedAtDesc(_)
OrderByCalculatedAtDesc(rows) ==
    IF rows = EmptyBag THEN {<<>>}
    ELSE LET newest == {r \in DOMAIN rows :
                           \A q \in DOMAIN rows : q.calculated_at <= r.calculated_at}
         IN  UNION {{<<r>> \o rest :
                        rest \in OrderByCalculatedAtDesc(rows (-) SetToBag({r}))} :
                    r \in newest}

\* A get_etc_history that forgets to add the date condition.
get_etc_history_nodate(tbl, field_name, date) ==
    OrderByCalculatedAtDesc(SelectEtc(tbl, field_name, None))

\* get_etc_history: the possible results of the query.
get_etc_history(tbl, field_name, date) ==
    OrderByCalculatedAtDesc(SelectEtc(tbl, field_name, date))

(***************************************************************************)
(* Field writes on a store that holds observations and ETc rows.           *)
(***************************************************************************)
\* update_field and delete_field, each call observed, between changes of
\* the three tables that are not.
NextFieldWrites ==
    \/ StoreChanges
    \/ WeatherChanges
    \/ SaveEtcCalculation
    \/ UpdateField
    \/ DeleteField

SpecFieldWrites == Init /\ [][NextFieldWrites]_vars

(***************************************************************************)
(* database.py: the start of the application, and the field operations on  *)
(* a store that is seeded.                                                 *)
(***************************************************************************)
\* A seeding that inserts every default that is not stored, whatever else
\* the table holds.
initialize_default_fields_missing(tbl) ==
    tbl \o SelectSeq(DefaultFields, LAMBDA f : ~field_exists(tbl, f.field_name))

\* initialize_default_fields: SELECT COUNT(*) FROM fields; the three default
\* rows are inserted, in this order, only if the count is 0.
initialize_default_fields(tbl) ==
    IF Len(tbl) = 0 THEN tbl \o DefaultFields ELSE tbl

\* database.initialize_default_fields()
InitializeDefaultFields ==
    /\ fields' = initialize_default_fields(fields)
    /\ last' = Call("initialize_default_fields", <<>>, "")
    /\ UNCHANGED <<weather_data, etc_calculations, clock>>

\* Field(field_name, crop_factor, fertilizer_week), constructed from any
\* values, blank names included.
ConstructField ==
    \E n \in FieldNames \cup BlankNames, kc \in CropFactors, wk \in FertilizerWeeks :
        /\ last' = Call("Field", <<n, kc, wk>>, Field(n, kc, wk))
        /\ UNCHANGED <<fields, weather_data, etc_calculations, clock>>

\* The field operations of the store, seeding included, each call observed,
\* and the constructor the reads of the store use.
NextFields ==
    \/ InitializeDefaultFields
    \/ CreateField
    \/ UpdateField
    \/ DeleteField
    \/ ConstructField

SpecFields == Init /\ [][NextFields]_vars

(***************************************************************************)
(* The application is started again on the database file it has written.   *)
(***************************************************************************)
\* The three tables of the database file.
Database(tblF, tblW, tblE) ==
    [fields |-> tblF, weather_data |-> tblW, etc_calculations |-> tblE]

\* An init_database that drops the tables before it creates them.
init_database_recreate(db) == Database(<<>>, {}, EmptyBag)

\* init_database on a file that holds the three tables: every statement is
\* CREATE TABLE IF NOT EXISTS or CREATE INDEX IF NOT EXISTS, and none of
\* them touches a table that exists.
init_database(db) == db

\* database.init_database()
InitDatabase ==
    LET db == init_database(Database(fields, weather_data, etc_calculations))
    IN  /\ fields' = db.fields
        /\ weather_data' = db.weather_data
        /\ etc_calculations' = db.etc_calculations
        /\ last' = Call("init_database", <<>>, "")
        /\ UNCHANGED clock

\* IrrigationApp.__init__ on the file of an earlier session: init_database,
\* then initialize_default_fields.  The call is observed with the number of
\* fields it found.
Startup ==
    LET db == init_database(Database(fields, weather_data, etc_calculations))
    IN  /\ fields' = initialize_default_fields(db.fields)
        /\ weather_data' = db.weather_data
        /\ etc_calculations' = db.etc_calculations
        /\ last' = Call("__init__", <<Len(fields)>>, "")
        /\ UNCHANGED clock

\* Sessions of the shell, the first of which has seeded the defaults, with
\* starts of the application between the menu operations.
NextStartup ==
    \/ Startup
    \/ InitDatabase
    \/ AddField
    \/ EditField
    \/ ShellDeleteField
    \/ InputWeatherData

SpecStartup == InitShell /\ [][NextStartup]_vars

(***************************************************************************)
(* The batch save, observed with its arguments.                            *)
(***************************************************************************)
\* database.save_etc_calculations_batch(etc_results, weather_data_list),
\* observed with the field names and the dates of etc_results and the dates
\* of weather_data_list; its statements raise at the first pair (fault = 1)
\* or not at all.
SaveBatchWithArguments ==
    \E ns \in SUBSET FieldNames \ {{}}, ds \in SUBSET Dates \ {{}},
       v \in EtcValues, dl \in SortedDateLists, fault \in {0, 1} :
        LET keys == SelectSeq(FieldNameList, LAMBDA n : n \in ns)
            etc_results == [n \in ns |-> [d \in ds |-> v]]
            wdl == [i \in DOMAIN dl |-> WeatherRow(dl[i], 0)]
            r == save_etc_calculations_batch(
                     etc_calculations, keys, etc_results, wdl, clock, fault)
        IN  /\ etc_calculations' = r.etc
            /\ last' = Call("save_etc_calculations_batch", <<ns, ds, dl>>, r.raised)
            /\ UNCHANGED <<fields, weather_data, clock>>

\* Batches over a table that earlier batches have written, the clock
\* advancing between them.
NextBatch ==
    \/ Tick
    \/ SaveBatchWithArguments

SpecBatch == Init /\ [][NextBatch]_vars

(***************************************************************************)
(* calculator.py, called on lists of any make.                             *)
(***************************************************************************)
\* Field and WeatherData objects: values that passed their validation.
FieldObjects == {FieldRow(n, kc, 1) : n \in FieldNames, kc \in 0..MaxKc}

WeatherObjects == {WeatherRow(d, x) : d \in Dates, x \in 0..MaxEt0}

\* The lists of length 0..2 over a set, repetitions included.
ListsOver(S) == {<<>>} \cup {<<x>> : x \in S} \cup {<<x, y>> : x, y \in S}

\* calculator.calculate_etc_for_all_fields(fields, weather_data_list)
CalculateEtcForAllFields ==
    \E fs \in ListsOver(FieldObjects), wdl \in ListsOver(WeatherObjects) :
        /\ last' = Call("calculate_etc_for_all_fields", <<fs, wdl>>,
                        calculate_etc_for_all_fields(fs, wdl))
        /\ UNCHANGED <<fields, weather_data, etc_calculations, clock>>

NextCalculator == CalculateEtcForAllFields

SpecCalculator == Init /\ [][NextCalculator]_vars

(***************************************************************************)
(* formatter.py.  The returned string is modelled as the sequence of its   *)
(* lines, a line as the sequence of the cells that " | " joins.            *)
(***************************************************************************)
\* A date 'YYYY-MM-DD' as it is printed in the header.
DateText(d) == ToString(d)

\* f"{etc_value:.2f}" of a whole number.
TwoDecimals(v) == ToString(v) \o ".00"

\* The order of str on field names: FieldNameList is in ascending order.
NameLeq(a, b) == FieldIndex(a) <= FieldIndex(b)

\* sorted(fields, key=lambda f: f.field_name): a stable sort.
RECURSIVE sorted_fields(_)
sorted_fields(fs) ==
    IF fs = <<>> THEN <<>>
    ELSE LET front == sorted_fields(SubSeq(fs, 1, Len(fs) - 1))
             f == fs[Len(fs)]
             k == Cardinality({i \in DOMAIN front :
                                  NameLeq(front[i].field_name, f.field_name)})
         IN  SubSeq(front, 1, k) \o <<f>> \o SubSeq(front, k + 1, Len(front))

\* A cell that tests the value for truth where it should test for None.
TableCell_truthy(etc_results, n, d) ==
    IF n \in DOMAIN etc_results /\ d \in DOMAIN etc_results[n]
          /\ etc_results[n][d] # 0
    THEN TwoDecimals(etc_results[n][d])
    ELSE "N/A"

\* etc_results.get(field_name, {}).get(date, None), printed.
TableCell(etc_results, n, d) ==
    IF n \in DOMAIN etc_results /\ d \in DOMAIN etc_results[n]
    THEN TwoDecimals(etc_results[n][d])
    ELSE "N/A"

\* formatter.format_etc_table(fields, weather_data_list, etc_results)
format_etc_table(fs, wdl, etc_results) ==
    IF fs = <<>> THEN <<<<"No fields available to display.">>>>
    ELSE IF wdl = <<>> THEN <<<<"No weather data available to display.">>>>
    ELSE LET sf == sorted_fields(fs)
             dates == [j \in DOMAIN wdl |-> wdl[j].date]
             header == <<"Field">> \o [j \in DOMAIN dates |-> DateText(dates[j])]
             separator == [j \in 1..(Len(dates) + 1) |-> "---"]
             row(f) == <<f.field_name>>
                           \o [j \in DOMAIN dates |->
                                  TableCell(etc_results, f.field_name, dates[j])]
         IN  <<header, separator>> \o [i \in DOMAIN sf |-> row(sf[i])]

\* The dictionaries {field_name: {date: etc_value}}, a name or a date absent
\* from some.
EtcResultDicts ==
    LET inner == UNION {[ds -> EtcValues] : ds \in SUBSET Dates}
    IN  UNION {[ns -> inner] : ns \in SUBSET FieldNames}

\* The arguments of one call of format_etc_table are at hand.
InitFormatter ==
    /\ fields = <<>>
    /\ weather_data = {}
    /\ etc_calculations = EmptyBag
    /\ clock = 0
    /\ \E fs \in ListsOver({FieldRow(n, 1, 1) : n \in FieldNames}),
          wdl \in ListsOver({WeatherRow(d, 1) : d \in Dates}),
          etc_results \in EtcResultDicts :
            last = Call("arguments", <<fs, wdl, etc_results>>, "")

FormatEtcTable ==
    /\ last.op = "arguments"
    /\ last' = Call("format_etc_table", last.args,
                    format_etc_table(last.args[1], last.args[2], last.args[3]))
    /\ UNCHANGED <<fields, weather_data, etc_calculations, clock>>

NextFormatter == FormatEtcTable

SpecFormatter == InitFormatter /\ [][NextFormatter]_vars

(***************************************************************************)
(* Claims.                                                                 *)
(***************************************************************************)
\* The step is a call of op.  A call logs itself in last and the clock does
\* not advance within it; the step of Tick keeps last and advances the clock.
Ran(op) == last'.op = op /\ clock' = clock

\* C1: in every reachable state the etc_calculations table holds at most one
\* row for any (field_name, date) pair.
C1_AtMostOneRowPerPair ==
    \A n \in FieldNames, d \in Dates : EtcCount(etc_calculations, n, d) <= 1

\* C2: a call of save_etc_calculations_batch that raises leaves the
\* etc_calculations table equal to the table before the call, whatever the
\* number of pairs it had deleted and inserted when it raised.
C2_BatchAllOrNothing ==
    [][(Ran("save_etc_calculations_batch") /\ last'.ret # "")
          => etc_calculations' = etc_calculations]_vars

\* A batch has raised after the statements of at least one pair had run, on
\* a table whose rows are all older than the call: a row the call had
\* inserted would show.
C2_Witness ==
    /\ last.op = "save_etc_calculations_batch"
    /\ last.ret # ""
    /\ last.args[1] >= 1
    /\ etc_calculations # EmptyBag
    /\ \A r \in DOMAIN etc_calculations : r.calculated_at < clock

\* C3: when the orchestration runs a second time for the same dates right
\* after a successful run, fields and observations unchanged, the second run
\* returns the same results (unless its save raises, which returns the
\* failure tuple), and the table then holds exactly one row for each
\* (field, date) pair of the results, with the etc_value of the first run.
C3_OrchestrationIdempotent ==
    [][(Ran("orchestrate") /\ last'.ret.again)
          => /\ \/ last'.ret.at = "save_etc_calculations_batch raised"
                \/ /\ last'.ret.ok
                   /\ last'.ret.etc_results = last.ret.etc_results
                   /\ last'.ret.valid_fields = last.ret.valid_fields
                   /\ last'.ret.weather_data = last.ret.weather_data
             /\ \A n \in DOMAIN last.ret.etc_results :
                  \A d \in DOMAIN last.ret.etc_results[n] :
                    /\ EtcCount(etc_calculations', n, d) = 1
                    /\ \A r \in DOMAIN etc_calculations' :
                         (r.field_name = n /\ r.date = d)
                             => r.etc_value = last.ret.etc_results[n][d]]_vars

\* The second of two successive successful runs for two dates, at a later
\* clock reading than the first: every row carries the second reading.
C3_Witness ==
    /\ last.op = "orchestrate"
    /\ last.ret.again
    /\ last.ret.ok
    /\ Len(last.args) = 2
    /\ Cardinality(DOMAIN last.ret.etc_results) = 2
    /\ clock = 1
    /\ \A r \in DOMAIN etc_calculations : r.calculated_at = 1

\* Some date of the list has no stored observation.
SomeDateUnobserved(dates) ==
    \E i \in DOMAIN dates : \A w \in weather_data : w.date # dates[i]

\* C4: a run of the orchestration for a list of dates of which at least one
\* has no stored observation returns the failure tuple and leaves the
\* etc_calculations table as it was.
C4_PartialDatesWriteNothing ==
    [][(Ran("orchestrate") /\ SomeDateUnobserved(last'.args))
          => /\ ~last'.ret.ok
             /\ etc_calculations' = etc_calculations]_vars

\* A run for two dates, the first observed and the second not, over valid
\* fields, has failed at the coverage check.
C4_Witness ==
    /\ last.op = "orchestrate"
    /\ Len(last.args) = 2
    /\ \E w \in weather_data : w.date = last.args[1] /\ w.et0 >= 0
    /\ \A w \in weather_data : w.date # last.args[2]
    /\ last.ret.at = "missing data"
    /\ etc_calculations # EmptyBag

\* C5: a run of the orchestration that returns the failure tuple leaves the
\* etc_calculations, fields and weather_data tables as they were.
C5_FailureChangesNothing ==
    [][(Ran("orchestrate") /\ ~last'.ret.ok)
          => /\ etc_calculations' = etc_calculations
             /\ fields' = fields
             /\ weather_data' = weather_data]_vars

\* A run has failed because its save raised, on a table whose rows are all
\* older than the run.
C5_Witness ==
    /\ last.op = "orchestrate"
    /\ last.ret.at = "save_etc_calculations_batch raised"
    /\ Len(last.args) = 2
    /\ etc_calculations # EmptyBag
    /\ \A r \in DOMAIN etc_calculations : r.calculated_at < clock

\* C6: between shell operations, every row (f, d) of etc_calculations whose
\* field f and whose observation for d are both stored has etc_value equal to
\* the stored et0 of d times the stored crop_factor of f.
C6_EtcConsistentWithInputs ==
    \A r \in DOMAIN etc_calculations :
        \A f \in Range(fields), w \in weather_data :
            (f.field_name = r.field_name /\ w.date = r.date)
                => r.etc_value = w.et0 * f.crop_factor

\* Every date of the list is stored with a valid reading, and no date is
\* listed twice.
AllDatesObserved(dates) ==
    /\ \A i \in DOMAIN dates :
          \E w \in weather_data : w.date = dates[i] /\ WeatherValid(w.date, w.et0)
    /\ \A i, j \in DOMAIN dates : dates[i] = dates[j] => i = j

\* C7: with a row of crop_factor -1 in the fields table next to at least one
\* valid field, and an observation for every requested date, the
\* orchestration succeeds, returns the valid fields only, computes results
\* for them only and writes rows for them only.
C7_CorruptedFieldFiltered ==
    [][(/\ Ran("orchestrate")
        /\ \E f \in Range(fields) : f.crop_factor = -1
        /\ \E f \in Range(fields) :
               FieldValid(f.field_name, f.crop_factor, f.fertilizer_week)
        /\ \A f \in Range(fields) : f.fertilizer_week >= 1
        /\ last'.args # <<>>
        /\ AllDatesObserved(last'.args))
          => /\ last'.ret.ok
             /\ Range(last'.ret.valid_fields) = {f \in Range(fields) : f.crop_factor >= 0}
             /\ DOMAIN last'.ret.etc_results =
                    {f.field_name : f \in {g \in Range(fields) : g.crop_factor >= 0}}
             /\ \A r \in DOMAIN etc_calculations' :
                    \/ r \in DOMAIN etc_calculations
                    \/ \E f \in Range(fields) :
                          f.field_name = r.field_name /\ f.crop_factor >= 0]_vars

\* C8: save_weather_data(d, y) leaves exactly one observation for d, with
\* value y, also when d was stored with another value x, and leaves the
\* observations of every other date unchanged; no state holds two
\* observations of one date.
C8_WeatherUpsert ==
    [][/\ Ran("save_weather_data")
          => LET d == last'.args[1]
                 y == last'.args[2]
             IN  /\ {w \in weather_data' : w.date = d} = {WeatherRow(d, y)}
                 /\ {w \in weather_data' : w.date # d} = {w \in weather_data : w.date # d}
       /\ \A w, v \in weather_data' : w.date = v.date => w = v]_vars

\* save_weather_data(d, y) has run on a store that held d with another value
\* x and held another date.
C8_Witness ==
    /\ last.op = "save_weather_data"
    /\ \E w \in last.old : w.date = last.args[1] /\ w.et0 # last.args[2]
    /\ \E w \in weather_data : w.date # last.args[1]
    /\ \E w \in weather_data : w.date = last.args[1] /\ w.et0 = last.args[2]

\* delete_field(name) followed by get_field(name) reports None, and
\* field_exists(name) is false.
DeleteThenGet ==
    Ran("delete_field")
        => /\ get_field(fields', last'.args[1]) = [raised |-> "", found |-> FALSE, field |-> <<>>]
           /\ ~field_exists(fields', last'.args[1])

\* create_field(name, kc, week) for a name that is not stored, followed by
\* get_field(name), returns a Field with these three values.
CreateThenGet(n, kc, wk) ==
    get_field(fields', n) = [raised |-> "", found |-> TRUE, field |-> FieldRow(n, kc, wk)]

\* C9: the round trip holds for every name that is not stored and every
\* crop_factor and fertilizer_week: get_field after create_field returns a
\* Field with the three values; get_field after delete_field reports None.
C9_FieldRoundTrip ==
    [][/\ (Ran("create_field") /\ ~field_exists(fields, last'.args[1]))
            => CreateThenGet(last'.args[1], last'.args[2], last'.args[3])
       /\ DeleteThenGet]_vars

\* C10: create_field with a name that is stored raises the duplicate-key
\* error and leaves the fields table as it was; the table never holds two
\* rows of one name.
C10_DuplicateCreateRejected ==
    [][/\ (Ran("create_field") /\ field_exists(fields, last'.args[1]))
            => /\ last'.ret = "IntegrityError"
               /\ fields' = fields
       /\ \A i, j \in DOMAIN fields' :
              fields'[i].field_name = fields'[j].field_name => i = j]_vars

\* create_field has been refused for a stored name, with values other than
\* the stored ones, next to another field.
C10_Witness ==
    /\ last.op = "create_field"
    /\ last.ret = "IntegrityError"
    /\ \E f \in Range(fields) :
          /\ f.field_name = last.args[1]
          /\ f.crop_factor # last.args[2]
          /\ f.fertilizer_week # last.args[3]
    /\ Len(fields) = 2

\* C11: update_field on a name that is not stored raises the not-found
\* error and changes no row of any table; on a stored name it overwrites
\* crop_factor and fertilizer_week of that field and leaves every other
\* field, every observation and every ETc row as it was.
C11_UpdateFieldOverwrites ==
    [][Ran("update_field")
          => /\ weather_data' = weather_data
             /\ etc_calculations' = etc_calculations
             /\ IF field_exists(fields, last'.args[1])
                THEN /\ last'.ret = ""
                     /\ DOMAIN fields' = DOMAIN fields
                     /\ \A i \in DOMAIN fields :
                           fields'[i] =
                               IF fields[i].field_name = last'.args[1]
                               THEN FieldRow(last'.args[1], last'.args[2], last'.args[3])
                               ELSE fields[i]
                ELSE /\ last'.ret = "ValueError"
                     /\ fields' = fields]_vars

\* update_field has overwritten one of two fields, with a crop_factor that
\* differs from the fertilizer_week, on a store that holds an observation
\* and an ETc row.
C11_Witness ==
    /\ last.op = "update_field"
    /\ last.ret = ""
    /\ last.args[2] # last.args[3]
    /\ Len(fields) = 2
    /\ weather_data # {}
    /\ etc_calculations # EmptyBag

\* The number of times a list holds a row.
Occurrences(h, r) == Cardinality({i \in DOMAIN h : h[i] = r})

\* C12: delete_field leaves the etc_calculations table as it was: after the
\* delete of a stored field get_etc_history still returns every ETc row of
\* that field; the delete of a name that is not stored raises the not-found
\* error and changes nothing.
C12_DeleteFieldKeepsHistory ==
    [][Ran("delete_field")
          => /\ etc_calculations' = etc_calculations
             /\ weather_data' = weather_data
             /\ \A h \in get_etc_history(etc_calculations', Some(last'.args[1]), None) :
                   \A r \in DOMAIN etc_calculations :
                       r.field_name = last'.args[1]
                           => Occurrences(h, r) = etc_calculations[r]
             /\ IF field_exists(fields, last'.args[1])
                THEN /\ last'.ret = ""
                     /\ ~field_exists(fields', last'.args[1])
                ELSE /\ last'.ret = "ValueError"
                     /\ fields' = fields]_vars

\* A stored field has been deleted while the table holds an ETc row of it,
\* next to one of another field.
C12_Witness ==
    /\ last.op = "delete_field"
    /\ last.ret = ""
    /\ \E r \in DOMAIN etc_calculations : r.field_name = last.args[1]
    /\ \E r \in DOMAIN etc_calculations : r.field_name # last.args[1]
    /\ fields # <<>>

\* C13: initialize_default_fields inserts exactly the rows DF1B, SS2B, MF8B,
\* each with crop_factor 0 and fertilizer_week 1, when the fields table is
\* empty, and leaves the table as it is when it holds a field; a second call
\* right after changes nothing.
C13_SeedsOnlyWhenEmpty ==
    [][Ran("initialize_default_fields")
          => /\ IF fields = <<>>
                THEN /\ Len(fields') = 3
                     /\ {fields'[i].field_name : i \in DOMAIN fields'}
                            = {"DF1B", "SS2B", "MF8B"}
                     /\ \A i \in DOMAIN fields' :
                            /\ fields'[i].crop_factor = 0
                            /\ fields'[i].fertilizer_week = 1
                ELSE fields' = fields
             /\ initialize_default_fields(fields') = fields'
             /\ last.op = "initialize_default_fields" => fields' = fields
             /\ weather_data' = weather_data
             /\ etc_calculations' = etc_calculations]_vars

\* initialize_default_fields has run on a table that held one field, none
\* of the defaults, and has left it so.
C13_Witness ==
    /\ last.op = "initialize_default_fields"
    /\ Len(fields) = 1
    /\ fields[1].field_name \in FieldNames

\* C15: every row of the fields table has a non-blank name, crop_factor >= 0
\* and fertilizer_week >= 1, in every state that create_field, update_field
\* and the seeding reach.
C15_StoredFieldsValid ==
    \A i \in DOMAIN fields :
        /\ fields[i].field_name \notin {"", " "}
        /\ fields[i].crop_factor >= 0
        /\ fields[i].fertilizer_week >= 1

\* C20: Field(name, crop_factor, fertilizer_week) raises the validation
\* error when the name is empty or blank, crop_factor < 0 or
\* fertilizer_week < 1, and otherwise constructs the Field of these values.
C20_FieldConstruction ==
    [][Ran("Field")
          => IF \/ last'.args[1] \in {"", " "}
                \/ last'.args[2] < 0
                \/ last'.args[3] < 1
             THEN last'.ret.raised = "ValueError"
             ELSE /\ last'.ret.raised = ""
                  /\ last'.ret.field.field_name = last'.args[1]
                  /\ last'.ret.field.crop_factor = last'.args[2]
                  /\ last'.ret.field.fertilizer_week = last'.args[3]]_vars

\* A Field has been constructed whose only invalid value is fertilizer_week,
\* one below the least valid week.
C20_Witness ==
    /\ last.op = "Field"
    /\ last.ret.raised = "ValueError"
    /\ last.args[1] \in FieldNames
    /\ last.args[2] >= 0
    /\ last.args[3] = 0

\* C14: no start of the application after the first one adds a field:
\* every field the table holds after such a start it held before.
C14_SeededOnlyAtFirstStart ==
    [][Ran("__init__") => Range(fields') \subseteq Range(fields)]_vars

\* C14 as amended: a start of the application after the first one adds
\* fields exactly when it finds the fields table empty, and then the three
\* defaults again; when the table holds a field it is left as it is.
\* Observations and ETc rows are never changed by a start.
C14_SeededWheneverEmpty ==
    [][Ran("__init__")
          => /\ IF fields = <<>>
                THEN fields' = DefaultFields
                ELSE fields' = fields
             /\ weather_data' = weather_data
             /\ etc_calculations' = etc_calculations]_vars

\* A later start has found the fields table empty, every field having been
\* deleted in a session that had entered observations, and has seeded the
\* defaults again.
C14_Witness ==
    /\ last.op = "__init__"
    /\ last.args = <<0>>
    /\ fields = DefaultFields
    /\ weather_data # {}

\* C19: init_database on a store that holds fields, observations and ETc
\* rows leaves every row of the three tables as it was.
C19_InitDatabaseIdempotent ==
    [][Ran("init_database")
          => /\ fields' = fields
             /\ weather_data' = weather_data
             /\ etc_calculations' = etc_calculations]_vars

\* init_database has run on a store that holds fields, observations and
\* ETc rows.
C19_Witness ==
    /\ last.op = "init_database"
    /\ fields # <<>>
    /\ weather_data # {}
    /\ etc_calculations # EmptyBag

\* C16: every run of the orchestration, whatever the store holds and
\* whatever the dates, ends in one of its return statements: it returns
\* (True, results, valid_fields, weather_data), or the failure tuple
\* (False, None, None, None), also when a read of the store or the save
\* raises.
C16_OrchestrationNeverRaises ==
    [][Ran("orchestrate")
          => IF last'.ret.ok
             THEN /\ last'.ret.at = "success"
                  /\ last'.ret.valid_fields # <<>>
                  /\ Len(last'.ret.weather_data) = Len(last'.args)
                  /\ DOMAIN last'.ret.etc_results
                         = {last'.ret.valid_fields[i].field_name :
                                i \in DOMAIN last'.ret.valid_fields}
             ELSE /\ last'.ret.at \in
                         {"get_all_fields raised", "no fields",
                          "get_weather_data_by_dates raised", "missing data",
                          "no valid fields", "save_etc_calculations_batch raised"}
                  /\ last'.ret.etc_results = <<>>
                  /\ last'.ret.valid_fields = <<>>
                  /\ last'.ret.weather_data = <<>>]_vars

\* A run has returned the failure tuple because the read of the
\* observations raised, on a store that holds a field.
C16_Witness ==
    /\ last.op = "orchestrate"
    /\ last.ret.at = "get_weather_data_by_dates raised"
    /\ fields # <<>>
    /\ Len(last.args) = 2

\* The filters of get_etc_history: none, or a stored value.
FieldNameFilters == {None} \cup {Some(n) : n \in FieldNames}

DateFilters == {None} \cup {Some(d) : d \in Dates}

\* The row passes the filters that are given.
Matches(r, field_name, date) ==
    /\ field_name # None => r.field_name = field_name[1]
    /\ date # None => r.date = date[1]

\* C17: get_etc_history returns the records newest first, and with a
\* field_name filter exactly the stored records of that field, with a date
\* filter exactly those of that date, with both exactly those of both, with
\* none all of them.
C17_HistoryOrderedAndFiltered ==
    \A fn \in FieldNameFilters, d \in DateFilters :
        /\ get_etc_history(etc_calculations, fn, d) # {}
        /\ \A h \in get_etc_history(etc_calculations, fn, d) :
              /\ \A i, j \in DOMAIN h :
                     i < j => h[i].calculated_at >= h[j].calculated_at
              /\ \A i \in DOMAIN h : h[i] \in DOMAIN etc_calculations
              /\ \A r \in DOMAIN etc_calculations :
                     Occurrences(h, r) =
                         IF Matches(r, fn, d) THEN etc_calculations[r] ELSE 0

\* The table holds rows of two fields and two dates, calculated at different
\* times.
C17_Witness ==
    \E r, q \in DOMAIN etc_calculations :
        /\ r.calculated_at < q.calculated_at
        /\ r.field_name # q.field_name
        /\ r.date # q.date

\* C18: get_weather_data_by_dates(dates) returns, without an error, exactly
\* the stored observations whose date is in the list, one for each date, in
\* ascending order of date; for the empty list it returns nothing.
C18_WeatherByDates ==
    \A dates \in DateLists :
        LET r == get_weather_data_by_dates(weather_data, dates)
        IN  /\ r.raised = ""
            /\ Range(r.rows) = {w \in weather_data : w.date \in Range(dates)}
            /\ \A i, j \in DOMAIN r.rows : i < j => r.rows[i].date < r.rows[j].date
            /\ dates = <<>> => r.rows = <<>>

\* The (field_name, date) pairs a batch is given to write: those of its
\* results whose date is in its list of observations.
Touched(args) ==
    {p \in args[1] \X args[2] : p[2] \in Range(args[3])}

\* C22: save_etc_calculations_batch writes only the pairs of its results
\* whose date is in the list of observations: each of them then has one row,
\* written by this call; the pairs of the results whose date is not in the
\* list get no row and raise no error, and the rows of every other pair stay
\* as they were, with their etc_value and calculated_at.
C22_BatchTouchesOnlyMatchedPairs ==
    [][Ran("save_etc_calculations_batch")
          => /\ Touched(last'.args) = {}
                    => /\ last'.ret = ""
                       /\ etc_calculations' = etc_calculations
             /\ last'.ret = ""
                    => \A n \in FieldNames, d \in Dates :
                          IF <<n, d>> \in Touched(last'.args)
                          THEN /\ EtcCount(etc_calculations', n, d) = 1
                               /\ \A r \in DOMAIN etc_calculations' :
                                      (r.field_name = n /\ r.date = d)
                                          => r.calculated_at = clock
                          ELSE \A r \in DOMAIN etc_calculations
                                        \cup DOMAIN etc_calculations' :
                                   (r.field_name = n /\ r.date = d)
                                       => CopiesIn(r, etc_calculations')
                                              = CopiesIn(r, etc_calculations)]_vars

\* A batch whose results hold a date that is not in its list has written
\* its other pairs, next to an older row of a pair it was not given.
C22_Witness ==
    /\ last.op = "save_etc_calculations_batch"
    /\ last.ret = ""
    /\ Touched(last.args) # {}
    /\ \E d \in last.args[2] : d \notin Range(last.args[3])
    /\ \E r \in DOMAIN etc_calculations :
          /\ <<r.field_name, r.date>> \notin Touched(last.args)
          /\ r.calculated_at < clock

\* The rows of the pairs a batch was given to write.
WrittenBy(args, tbl) ==
    {r \in DOMAIN tbl : <<r.field_name, r.date>> \in Touched(args)}

C23_NoUsableFieldFails ==
    [][(/\ Ran("orchestrate")
        /\ \A i \in DOMAIN fields : fields[i].crop_factor < 0)
          => /\ ~last'.ret.ok
             /\ last'.ret.at \in
                    {"no fields", "get_all_fields raised", "no valid fields"}
             /\ fields = <<>> => last'.ret.at = "no fields"
             /\ etc_calculations' = etc_calculations]_vars

\* A run has failed on a store whose two fields both have a negative
\* crop_factor, every requested date having its observation.
C23_Witness ==
    /\ last.op = "orchestrate"
    /\ ~last.ret.ok
    /\ last.ret.at # "no fields"
    /\ Len(fields) = 2
    /\ \A i \in DOMAIN fields : fields[i].crop_factor < 0
    /\ last.args # <<>>
    /\ \A i \in DOMAIN last.args :
          \E w \in weather_data : w.date = last.args[i] /\ w.et0 >= 0

\* The names of the fields of a list.
NamesOf(fs) == {fs[i].field_name : i \in DOMAIN fs}

\* C25: after a successful run of the orchestration for the dates D the
\* table holds, for every returned field f and every d in D, exactly one row
\* (f, d), with the etc_value results[f][d]; the rows of dates outside D and
\* of fields that were not returned are as they were.
C25_SuccessPersistsResults ==
    [][(Ran("orchestrate") /\ last'.ret.ok)
          => \A n \in FieldNames, d \in Dates :
                IF n \in NamesOf(last'.ret.valid_fields) /\ d \in Range(last'.args)
                THEN /\ EtcCount(etc_calculations', n, d) = 1
                     /\ \A r \in DOMAIN etc_calculations' :
                            (r.field_name = n /\ r.date = d)
                                => r.etc_value = last'.ret.etc_results[n][d]
                ELSE \A r \in DOMAIN etc_calculations \cup DOMAIN etc_calculations' :
                         (r.field_name = n /\ r.date = d)
                             => CopiesIn(r, etc_calculations')
                                    = CopiesIn(r, etc_calculations)]_vars

\* A run for one date has succeeded on a table that holds a row of another
\* date and a row of a field that is no longer stored.
C25_Witness ==
    /\ last.op = "orchestrate"
    /\ last.ret.ok
    /\ Len(last.args) = 1
    /\ \E r \in DOMAIN etc_calculations : r.date \notin Range(last.args)
    /\ \E r \in DOMAIN etc_calculations :
          r.field_name \notin NamesOf(last.ret.valid_fields)
    /\ \E r \in DOMAIN etc_calculations :
          r.date \in Range(last.args) /\ r.etc_value > 0

\* C26: when the store holds a field, every stored field has
\* crop_factor >= 0 and every date of the list has a stored observation, the
\* run returns success.  The run is taken on rows that pass validation and
\* with a save that does not raise.
C26_CoveredDatesSucceed ==
    [][(/\ Ran("orchestrate")
        /\ fields # <<>>
        /\ \A i \in DOMAIN fields : fields[i].crop_factor >= 0
        /\ \A i \in DOMAIN last'.args :
              \E w \in weather_data : w.date = last'.args[i] /\ w.et0 >= 0
        /\ last'.ret.at # "save_etc_calculations_batch raised")
          => last'.ret.ok]_vars

\* The result has one key for each field name and under it one entry for
\* each observation date.
CrossProductKeys(fs, wdl, results) ==
    /\ DOMAIN results = NamesOf(fs)
    /\ \A n \in NamesOf(fs) :
          DOMAIN results[n] = {wdl[j].date : j \in DOMAIN wdl}

\* C24: for every list of fields and every list of observations the result
\* of calculate_etc_for_all_fields has one key for each field name, under it
\* one entry for each observation date, and the entry of a field and an
\* observation is the et0 of that observation times the crop_factor of that
\* field.
C24_FullCrossProduct ==
    [][Ran("calculate_etc_for_all_fields")
          => LET fs == last'.args[1]
                 wdl == last'.args[2]
             IN  /\ CrossProductKeys(fs, wdl, last'.ret)
                 /\ \A i \in DOMAIN fs, j \in DOMAIN wdl :
                        last'.ret[fs[i].field_name][wdl[j].date]
                            = wdl[j].et0 * fs[i].crop_factor]_vars

\* No later element of the list has the key of element i.
LastOfName(fs, i) == \A k \in DOMAIN fs : fs[k].field_name = fs[i].field_name => k <= i

LastOfDate(wdl, j) == \A k \in DOMAIN wdl : wdl[k].date = wdl[j].date => k <= j

\* C24 as amended: the keys are as stated; the entry of a field name and a
\* date is the et0 of the last observation of that date in the list times
\* the crop_factor of the last field of that name in the list, which, in
\* lists that repeat no name and no date, is every field and every
\* observation.
C24_CrossProductLastWins ==
    [][Ran("calculate_etc_for_all_fields")
          => LET fs == last'.args[1]
                 wdl == last'.args[2]
             IN  /\ CrossProductKeys(fs, wdl, last'.ret)
                 /\ \A i \in DOMAIN fs, j \in DOMAIN wdl :
                        (LastOfName(fs, i) /\ LastOfDate(wdl, j))
                            => last'.ret[fs[i].field_name][wdl[j].date]
                                   = wdl[j].et0 * fs[i].crop_factor]_vars

\* The function has been called with a field of crop factor above 0 and two
\* observations of one date that differ in et0, and has returned the value
\* of the later observation.
C24_Witness ==
    /\ last.op = "calculate_etc_for_all_fields"
    /\ Len(last.args[1]) = 2
    /\ Len(last.args[2]) = 2
    /\ last.args[1][1].field_name # last.args[1][2].field_name
    /\ last.args[1][1].crop_factor > 0
    /\ last.args[2][1].date = last.args[2][2].date
    /\ last.args[2][1].et0 # last.args[2][2].et0
    /\ last.ret[last.args[1][1].field_name][last.args[2][1].date]
           = last.args[2][2].et0 * last.args[1][1].crop_factor

\* The number of fields of the list that have the name n.
FieldsNamed(fs, n) == Cardinality({i \in DOMAIN fs : fs[i].field_name = n})

\* C21: format_etc_table returns the no-fields message for an empty list of
\* fields and the no-data message for an empty list of observations;
\* otherwise a header line with one column for each observation in the
\* order given, a separator line, and one line for each field of the list,
\* the lines in ascending order of field name whatever the order of the
\* list, where the cell of a field and a date shows results[field][date] with
\* 2 decimals if that entry is in the results and N/A if it is not.
C21_FormatEtcTable ==
    [][Ran("format_etc_table")
          => LET fs == last'.args[1]
                 wdl == last'.args[2]
                 results == last'.args[3]
                 table == last'.ret
             IN  IF fs = <<>>
                 THEN table = <<<<"No fields available to display.">>>>
                 ELSE IF wdl = <<>>
                 THEN table = <<<<"No weather data available to display.">>>>
                 ELSE /\ Len(table) = 2 + Len(fs)
                      /\ \A l \in DOMAIN table : Len(table[l]) = 1 + Len(wdl)
                      /\ table[1][1] = "Field"
                      /\ \A j \in DOMAIN wdl :
                            table[1][j + 1] = ToString(wdl[j].date)
                      /\ \A n \in FieldNames :
                            Cardinality({l \in 3..Len(table) : table[l][1] = n})
                                = FieldsNamed(fs, n)
                      /\ \A l, m \in 3..Len(table) :
                            l < m => FieldIndex(table[l][1]) <= FieldIndex(table[m][1])
                      /\ \A l \in 3..Len(table), j \in DOMAIN wdl :
                            LET n == table[l][1]
                                d == wdl[j].date
                            IN  table[l][j + 1] =
                                    IF n \in DOMAIN results /\ d \in DOMAIN results[n]
                                    THEN ToString(results[n][d]) \o ".00"
                                    ELSE "N/A"]_vars

\* The function has printed the fields F2, F1 given in that order for two
\* dates given in descending order, with a value 0 in the results of one
\* date and no entry for the other: the line of F1 is first and shows 0.00
\* and N/A.
C21_Witness ==
    /\ last.op = "format_etc_table"
    /\ Len(last.args[1]) = 2
    /\ last.args[1][1].field_name = "F2"
    /\ last.args[1][2].field_name = "F1"
    /\ Len(last.args[2]) = 2
    /\ last.args[2][1].date > last.args[2][2].date
    /\ "F1" \in DOMAIN last.args[3]
    /\ DOMAIN last.args[3]["F1"] = {last.args[2][1].date}
    /\ last.args[3]["F1"][last.args[2][1].date] = 0
    /\ last.ret[3] = <<"F1", "0.00", "N/A">>
    /\ last.ret[4][1] = "F2"

====
